---- MODULE Spec2Model ----
(***************************************************************************)
(* Exam scheduling as a constraint-satisfaction problem (src/src/exams.py). *)
(*                                                                         *)
(* Three specifications over one set of variables:                          *)
(*   SpecEval  ExamSchedulingConstraint.satisfied called on an assignment   *)
(*             (empty, partial or complete) of exams to schedule slots;    *)
(*   SpecMain  the batch run of the __main__ block: slot generation, the    *)
(*             search for a solution, the export of the grid;              *)
(*   SpecGen   the slot generation loop alone, on larger hall inventories. *)
(*                                                                         *)
(* Python strings that are indexed, sliced or written to the output file   *)
(* (subject identifiers, hall names, row labels) are sequences of          *)
(* one-character strings, so subject[5] and str(st)[:5] are computed.      *)
(* A date is its proleptic Gregorian ordinal, a time is [hour, minute],    *)
(* a datetime is [date, time].  A dict is the sequence of its items in     *)
(* iteration (insertion) order.                                            *)
(***************************************************************************)
EXTENDS Integers, Sequences, FiniteSets

VARIABLES
    pc,              \* position of the program
    assignment,      \* SpecEval: the Dict[Exam, ScheduleSlot] passed to satisfied
    result,          \* SpecEval: how the call to satisfied ended
    term,            \* SpecMain: the loaded Term
    data,            \* SpecMain: the hall records as read from test/sale{i}.json
    halls,           \* SpecMain: the module-level name `halls` (rebound by the slot loop)
    halls_powerset,  \* SpecMain: list(powerset(halls))
    d,               \* SpecMain: next value of the slot loop's `d`
    schedule_slots,  \* SpecMain: the list of generated ScheduleSlot
    solution,        \* SpecMain: what csp.backtracking_search() returned
    out_file         \* SpecMain: test/out{i}.csv, the rows written so far, or NoFile

vars == <<pc, assignment, result, term, data, halls, halls_powerset, d,
          schedule_slots, solution, out_file>>

-----------------------------------------------------------------------------
(* Bounds of the model. *)

\* Largest number of exams in an assignment handed to satisfied (SpecEval).
MaxExams == 3

\* Largest number of exams in a term (SpecMain).
MaxTermExams == 2

\* Largest hall inventory of SpecGen.
MaxHalls == 3

\* Largest term.duration_days (SpecMain); number of calendar days the slots of
\* SpecEval are spread over.
MaxDays == 2

-----------------------------------------------------------------------------
(* Program constants. *)

\* date(2020, 1, 1).toordinal()
TERM_START_DATE == 737425

Time(h, m) == [hour |-> h, minute |-> m]

VALID_START_TIMES == <<Time(8, 0), Time(11, 30), Time(15, 0), Time(18, 30)>>

\* The cell written for an idle hall: "X".
IdleCell == <<"X">>

\* What backtracking_search returns when there is no solution.
None == "None"

\* No output file exists.
NoFile == "NoFile"

\* The name `solution` before line 141 binds it.
Unbound == "unbound"

-----------------------------------------------------------------------------
(* Small helpers of the Python runtime. *)

Range(s) == {s[i] : i \in DOMAIN s}

Last(s) == s[Len(s)]

\* datetime.combine(day, time)
Combine(day, time) == [date |-> day, time |-> time]

\* One digit as a character.
Digit(n) == <<"0", "1", "2", "3", "4", "5", "6", "7", "8", "9">>[n + 1]

RECURSIVE Decimal(_)
\* str(n) for n >= 0.
Decimal(n) == IF n < 10 THEN <<Digit(n)>> ELSE Decimal(n \div 10) \o <<Digit(n % 10)>>

\* s[:n]
Prefix(s, n) == IF Len(s) <= n THEN s ELSE SubSeq(s, 1, n)

-----------------------------------------------------------------------------
(* Domain model. *)

\* Exam(subject, n_applied, needs_computers, departments); __post_init__ makes
\* departments a tuple, in the order of the exam record.
Exam(subject, n_applied, needs_computers, departments) ==
    [subject |-> subject, n_applied |-> n_applied,
     needs_computers |-> needs_computers, departments |-> departments]

Hall(hall, capacity, has_computers, n_proctors, belongs_to_etf) ==
    [hall |-> hall, capacity |-> capacity, has_computers |-> has_computers,
     n_proctors |-> n_proctors, belongs_to_etf |-> belongs_to_etf]

ScheduleSlot(start, hs) == [start |-> start, halls |-> hs]

-----------------------------------------------------------------------------
(* ExamSchedulingConstraint.satisfied *)

RECURSIVE SumCapacity(_)
\* sum(h.capacity for h in slot.halls)
SumCapacity(hs) ==
    IF hs = {} THEN 0
    ELSE LET h == CHOOSE x \in hs : TRUE
         IN  h.capacity + SumCapacity(hs \ {h})

\* exam.n_applied > sum(h.capacity for h in slot.halls)
CapacityExceeded(exam, slot) == exam.n_applied > SumCapacity(slot.halls)

\* Mutant of start_day: the whole start, date and time, is taken for the day.
StartDayWithTime(slot) == slot.start

\* slot.start.date(), the key of dept_year_constraints
start_day(slot) == slot.start.date

\* slot.start.time()
start_time(slot) == slot.start.time

\* start_time not in VALID_START_TIMES
InvalidStartTime(slot) == start_time(slot) \notin Range(VALID_START_TIMES)

\* Mutant of concurrent_halls: only the items next to the exam's own item in
\* iteration order are looked at.
ConcurrentHallsOfNeighbours(asg, exam, slot) ==
    UNION {asg[i][2].halls :
             i \in {j \in DOMAIN asg :
                      /\ asg[j][2].start = slot.start /\ asg[j][1] # exam
                      /\ \E k \in DOMAIN asg :
                            asg[k][1] = exam /\ (j = k + 1 \/ j = k - 1)}}

\* The halls of every other exam of the assignment whose slot has the same start.
concurrent_halls(asg, exam, slot) ==
    UNION {asg[i][2].halls :
             i \in {j \in DOMAIN asg : asg[j][2].start = slot.start /\ asg[j][1] # exam}}

\* Mutant of HallsDoubleBooked: the test is negated.
HallsNotDoubleBooked(asg, exam, slot) ==
    slot.halls \cap concurrent_halls(asg, exam, slot) = {}

\* slot.halls & concurrent_halls
HallsDoubleBooked(asg, exam, slot) ==
    slot.halls \cap concurrent_halls(asg, exam, slot) # {}

\* exam.needs_computers and any(not h.has_computers for h in slot.halls)
LacksComputers(exam, slot) ==
    exam.needs_computers /\ \E h \in slot.halls : ~h.has_computers

\* dept_year_constraints[day] of a defaultdict(set): a missing key reads as set().
Bucket(dyc, day) == IF day \in DOMAIN dyc THEN dyc[day] ELSE {}

\* Mutant of BucketAdd: the constraint is never added.
BucketAddForgotten(dyc, day, constraint) == dyc

\* dept_year_constraints[day].add(constraint)
BucketAdd(dyc, day, constraint) ==
    [k \in DOMAIN dyc \cup {day} |->
        IF k = day THEN Bucket(dyc, day) \cup {constraint} ELSE dyc[k]]

\* Index 5 of the subject exists (Python indexes from 0).
HasYearChar(exam) == Len(exam.subject) >= 6

\* exam.subject[5]
SubjectYear(exam) == exam.subject[6]

RECURSIVE DeptLoop(_, _, _, _)
\* for dept in exam.departments, from the j-th department on.  Ends "next" (the
\* loop ran out), "False" (return False) or "IndexError" (subject[5] raised).
DeptLoop(exam, day, j, dyc) ==
    IF j > Len(exam.departments) THEN [ended |-> "next", dyc |-> dyc]
    ELSE IF ~HasYearChar(exam) THEN [ended |-> "IndexError", dyc |-> dyc]
    ELSE LET constraint == <<exam.departments[j], SubjectYear(exam)>>
         IN  IF constraint \in Bucket(dyc, day)
             THEN [ended |-> "False", dyc |-> dyc]
             ELSE DeptLoop(exam, day, j + 1, BucketAdd(dyc, day, constraint))

RECURSIVE ExamLoop(_, _, _)
\* for exam, slot in assignment.items(), from the k-th item on.
ExamLoop(asg, k, dyc) ==
    IF k > Len(asg) THEN "True"
    ELSE LET exam == asg[k][1]
             slot == asg[k][2]
         IN  IF CapacityExceeded(exam, slot) THEN "False"
             ELSE IF InvalidStartTime(slot) THEN "False"
             ELSE IF HallsDoubleBooked(asg, exam, slot) THEN "False"
             ELSE IF LacksComputers(exam, slot) THEN "False"
             ELSE LET r == DeptLoop(exam, start_day(slot), 1, dyc)
                  IN  IF r.ended = "next" THEN ExamLoop(asg, k + 1, r.dyc)
                      ELSE r.ended

\* satisfied(assignment): "True", "False", or "IndexError" when it raises.
Satisfied(asg) == ExamLoop(asg, 1, <<>>)

-----------------------------------------------------------------------------
(* powerset and the slot generation loop of __main__ *)

RECURSIVE Combinations(_, _)
\* list(combinations(s, r)): the r-length subsequences of s, in itertools' order.
Combinations(s, r) ==
    IF r = 0 THEN << <<>> >>
    ELSE IF Len(s) < r THEN <<>>
    ELSE LET with == Combinations(Tail(s), r - 1)
         IN  [i \in 1..Len(with) |-> <<Head(s)>> \o with[i]]
             \o Combinations(Tail(s), r)

RECURSIVE ChainFrom(_, _, _)
\* chain.from_iterable(combinations(s, r) for r in range(lo, hi))
ChainFrom(s, lo, hi) ==
    IF lo >= hi THEN <<>> ELSE Combinations(s, lo) \o ChainFrom(s, lo + 1, hi)

\* Mutant of Powerset: range(0, len(s)+1), which yields the empty tuple too.
PowersetWithEmpty(s) == ChainFrom(s, 0, Len(s) + 1)

\* list(powerset(iterable))
Powerset(s) == ChainFrom(s, 1, Len(s) + 1)

\* The slots the inner two loops append for day number dd.
RECURSIVE SlotsOfTime(_, _, _)
SlotsOfTime(start, combos, i) ==
    IF i > Len(combos) THEN <<>>
    ELSE <<ScheduleSlot(start, Range(combos[i]))>> \o SlotsOfTime(start, combos, i + 1)

RECURSIVE SlotsOfDay(_, _, _)
SlotsOfDay(day, combos, t) ==
    IF t > Len(VALID_START_TIMES) THEN <<>>
    ELSE SlotsOfTime(Combine(day, VALID_START_TIMES[t]), combos, 1)
         \o SlotsOfDay(day, combos, t + 1)

-----------------------------------------------------------------------------
(* The inputs the model draws from. *)

\* Two halls of one seat each; only the first has computers.
HallPool ==
    <<Hall(<<"S", "1">>, 1, TRUE, 1, TRUE),
      Hall(<<"S", "2">>, 1, FALSE, 1, FALSE)>>

\* Exam records.  The first three are well formed; exams 1 and 2 share the
\* department "SI" and the year character "2"; exam 3 is of another year and
\* needs computers; exam 4 repeats a department in its record (and has the
\* subject identifier of exam 1); the subject of exam 5 has no character at
\* index 5; exam 6 has no department and the subject "X".
ExamPool ==
    <<Exam(<<"1", "3", "S", "1", "1", "2", "O", "S">>, 1, FALSE, <<"SI">>),
      Exam(<<"1", "3", "E", "1", "1", "2", "O", "E">>, 2, FALSE, <<"ER", "SI">>),
      Exam(<<"1", "3", "S", "1", "1", "3", "P", "S">>, 1, TRUE, <<"SI">>),
      Exam(<<"1", "3", "S", "1", "1", "2", "O", "S">>, 1, FALSE, <<"SI", "SI">>),
      Exam(<<"O", "S">>, 1, FALSE, <<"SI">>),
      Exam(<<"X">>, 1, FALSE, <<>>)>>

\* Exam records of the terms of SpecMain: those of ExamPool, with exam 4
\* replaced by an exam of the department "ER" that has the subject identifier
\* of exam 1.
TermExamPool ==
    <<ExamPool[1], ExamPool[2], ExamPool[3],
      Exam(<<"1", "3", "S", "1", "1", "2", "O", "S">>, 1, FALSE, <<"ER">>),
      ExamPool[5], ExamPool[6]>>

\* The strictly increasing index sequences into a pool of n items, of length
\* at most m: the sublists of the pool, in pool order.
SubLists(n, m) ==
    {ix \in UNION {[1..k -> 1..n] : k \in 0..m} :
        \A i \in DOMAIN ix : \A j \in DOMAIN ix : i < j => ix[i] < ix[j]}

Pick(pool, ix) == [i \in DOMAIN ix |-> pool[ix[i]]]

\* The calendar days of a term of MaxDays days.
Days == {TERM_START_DATE + k : k \in 0..(MaxDays - 1)}

\* Slots an assignment given to satisfied may hold: the first two fixed start
\* times on each day with each non-empty set of halls, and one slot supplied
\* from outside the generator, at 09:00.
EvalSlots ==
    {ScheduleSlot(Combine(day, VALID_START_TIMES[t]), hs) :
        day \in Days, t \in 1..2, hs \in (SUBSET Range(HallPool)) \ {{}}}
    \cup {ScheduleSlot(Combine(TERM_START_DATE, Time(9, 0)), {HallPool[1]})}

-----------------------------------------------------------------------------
(* SpecEval: one call of satisfied. *)

InitEval ==
    /\ pc = "call"
    \* a dict of at most MaxExams exams of the pool, each bound to a slot
    /\ \E ix \in SubLists(Len(ExamPool), MaxExams) :
         \E sl \in [DOMAIN ix -> EvalSlots] :
            assignment = [i \in DOMAIN ix |-> <<ExamPool[ix[i]], sl[i]>>]
    /\ result = "pending"
    /\ term = [duration_days |-> 0, exams |-> <<>>]
    /\ data = <<>>
    /\ halls = <<>>
    /\ halls_powerset = <<>>
    /\ d = 0
    /\ schedule_slots = <<>>
    /\ solution = Unbound
    /\ out_file = NoFile

\* constraint.satisfied(assignment)
CallSatisfied ==
    /\ pc = "call"
    /\ result' = Satisfied(assignment)
    /\ pc' = "returned"
    /\ UNCHANGED <<assignment, term, data, halls, halls_powerset, d, schedule_slots,
                   solution, out_file>>

NextEval == CallSatisfied

SpecEval == InitEval /\ [][NextEval]_vars

-----------------------------------------------------------------------------
(* csp.backtracking_search, modelled from its contract: it extends a partial  *)
(* assignment exam by exam in the order of the variables, keeps a binding    *)
(* only when satisfied accepts the extended assignment, and gives up when    *)
(* no binding is left to try.  The order in which slots are tried is free.   *)

\* A search node is the list of slot numbers chosen for the first exams.
\* The dict it stands for: the first exams, in order, bound to those slots.
RECURSIVE Bind(_, _, _)
Bind(exams, slots, node) ==
    IF node = <<>> THEN <<>>
    ELSE Append(Bind(exams, slots, SubSeq(node, 1, Len(node) - 1)),
                <<exams[Len(node)], slots[node[Len(node)]]>>)

\* The extensions of a node by a binding of the next exam.
Extensions(slots, node) == {Append(node, i) : i \in DOMAIN slots}

\* The extensions satisfied accepts.
Accepted(exams, slots, node) ==
    {c \in Extensions(slots, node) : Satisfied(Bind(exams, slots, c)) = "True"}

RECURSIVE Solutions(_, _, _)
\* The complete nodes the search can end with, from `node` on.
Solutions(exams, slots, node) ==
    IF Len(node) = Len(exams) THEN {node}
    ELSE UNION {Solutions(exams, slots, c) : c \in Accepted(exams, slots, node)}

RECURSIVE SearchRaises(_, _, _)
\* Some call of satisfied made by the search, from `node` on, raises.
SearchRaises(exams, slots, node) ==
    /\ Len(node) < Len(exams)
    /\ \/ \E c \in Extensions(slots, node) :
             Satisfied(Bind(exams, slots, c)) = "IndexError"
       \/ \E c \in Accepted(exams, slots, node) : SearchRaises(exams, slots, c)

-----------------------------------------------------------------------------
(* The export of the grid. *)

TwoDigits(n) == <<Digit(n \div 10), Digit(n % 10)>>

\* str(st) of a datetime.time without seconds: "HH:MM:00"
TimeStr(st) == TwoDigits(st.hour) \o <<":">> \o TwoDigits(st.minute) \o <<":", "0", "0">>

\* Mutant of find_items: the items of the same day, whatever their time.
FindItemsOfDay(sol, start) ==
    SelectSeq(sol, LAMBDA item : item[2].start.date = start.date)

\* find_items(solution, start)
find_items(sol, start) == SelectSeq(sol, LAMBDA item : item[2].start = start)

\* next(i for i in items if hall in i[1].halls)[0].subject, or "X" on StopIteration
Cell(items, hall) ==
    LET hits == SelectSeq(items, LAMBDA item : hall \in item[2].halls)
    IN  IF hits = <<>> THEN IdleCell ELSE hits[1][1].subject

\* [f'Dan{dn}', *hls]
HeaderRow(hs, dn) == << <<"D", "a", "n">> \o Decimal(dn) >> \o [i \in DOMAIN hs |-> hs[i].hall]

\* [str(st)[:5], *out]
TimeRow(sol, hs, dn, st) ==
    LET items == find_items(sol, Combine(TERM_START_DATE + dn, st))
    IN  <<Prefix(TimeStr(st), 5)>> \o [i \in DOMAIN hs |-> Cell(items, hs[i])]

\* The rows written for day number dn: header, one row per start time, [].
DayRows(sol, hs, dn) ==
    <<HeaderRow(hs, dn)>>
    \o [t \in DOMAIN VALID_START_TIMES |-> TimeRow(sol, hs, dn, VALID_START_TIMES[t])]
    \o << <<>> >>

RECURSIVE GridFrom(_, _, _, _)
\* The rows written for the days dn .. n-1.
GridFrom(sol, hs, dn, n) ==
    IF dn >= n THEN <<>> ELSE DayRows(sol, hs, dn) \o GridFrom(sol, hs, dn + 1, n)

-----------------------------------------------------------------------------
(* SpecMain: the batch run. *)

\* The lists of distinct halls of a pool, of length at most m, in any order.
HallLists(pool, m) ==
    {hs \in UNION {[1..k -> Range(pool)] : k \in 0..m} :
        \A i \in DOMAIN hs : \A j \in DOMAIN hs : i # j => hs[i] # hs[j]}

\* The state on reaching the slot loop: term and halls loaded,
\* schedule_slots = [], halls_powerset = list(powerset(halls)).
InitMain ==
    /\ pc = "slots"
    /\ \E n \in 0..MaxDays : \E ix \in SubLists(Len(TermExamPool), MaxTermExams) :
          term = [duration_days |-> n, exams |-> Pick(TermExamPool, ix)]
    /\ data \in HallLists(HallPool, Len(HallPool))
    /\ halls = data
    /\ halls_powerset = Powerset(halls)
    /\ d = 0
    /\ schedule_slots = <<>>
    /\ solution = Unbound
    /\ out_file = NoFile
    /\ assignment = <<>>
    /\ result = "pending"

\* One pass of `for d in range(term.duration_days)`; the innermost loop
\* rebinds `halls` to each member of halls_powerset in turn.
SlotLoop ==
    /\ pc = "slots"
    /\ d < term.duration_days
    /\ schedule_slots' =
          schedule_slots \o SlotsOfDay(TERM_START_DATE + d, halls_powerset, 1)
    /\ halls' = IF halls_powerset = <<>> THEN halls ELSE Last(halls_powerset)
    /\ d' = d + 1
    /\ UNCHANGED <<pc, assignment, result, term, data, halls_powerset, solution, out_file>>

\* The search calls satisfied on an assignment on which it raises.  An
\* exhaustive search does so whenever such an assignment extends an accepted
\* one, since no solution binds an exam on which satisfied raises.
SearchFails ==
    /\ \E e \in Range(term.exams) : ~HasYearChar(e)
    /\ SearchRaises(term.exams, schedule_slots, <<>>)

\* The loop is over; solution = csp.backtracking_search() returns one of the
\* solutions, or None when the search runs out of bindings.
Solve ==
    /\ pc = "slots"
    /\ d >= term.duration_days
    /\ ~SearchFails
    /\ LET found == Solutions(term.exams, schedule_slots, <<>>)
       IN  IF found = {} THEN solution' = None
           ELSE \E node \in found :
                   solution' = Bind(term.exams, schedule_slots, node)
    /\ pc' = "export"
    /\ UNCHANGED <<assignment, result, term, data, halls, halls_powerset, d,
                   schedule_slots, out_file>>

\* The loop is over; a call of satisfied made by the search raises IndexError,
\* which ends the run before `solution` is bound.
SolveRaise ==
    /\ pc = "slots"
    /\ d >= term.duration_days
    /\ SearchFails
    /\ pc' = "crashed"
    /\ UNCHANGED <<assignment, result, term, data, halls, halls_powerset, d,
                   schedule_slots, solution, out_file>>

\* with open(f'test/out{i}.csv', mode='w') as f: ...  The file is created on
\* open; with solution = None, find_items raises AttributeError in the first
\* pass of the day loop, after the first header row was written.
Export ==
    /\ pc = "export"
    /\ IF solution # None
       THEN /\ out_file' = GridFrom(solution, halls, 0, term.duration_days)
            /\ pc' = "done"
       ELSE IF term.duration_days <= 0
       THEN /\ out_file' = <<>>
            /\ pc' = "done"
       ELSE /\ out_file' = <<HeaderRow(halls, 0)>>
            /\ pc' = "crashed"
    /\ UNCHANGED <<assignment, result, term, data, halls, halls_powerset, d,
                   schedule_slots, solution>>

NextMain == SlotLoop \/ Solve \/ SolveRaise \/ Export

SpecMain == InitMain /\ [][NextMain]_vars

-----------------------------------------------------------------------------
(* SpecGen: the slot generation loop alone, over a larger hall inventory. *)

GenHallPool ==
    <<Hall(<<"S", "1">>, 1, TRUE, 1, TRUE),
      Hall(<<"S", "2">>, 1, FALSE, 1, FALSE),
      Hall(<<"S", "3">>, 2, TRUE, 2, TRUE),
      Hall(<<"S", "4">>, 2, FALSE, 2, FALSE)>>

InitGen ==
    /\ pc = "slots"
    /\ \E n \in 0..MaxDays : term = [duration_days |-> n, exams |-> <<>>]
    /\ data \in HallLists(GenHallPool, MaxHalls)
    /\ halls = data
    /\ halls_powerset = Powerset(halls)
    /\ d = 0
    /\ schedule_slots = <<>>
    /\ solution = Unbound
    /\ out_file = NoFile
    /\ assignment = <<>>
    /\ result = "pending"

NextGen == SlotLoop

SpecGen == InitGen /\ [][NextGen]_vars

-----------------------------------------------------------------------------
(* Vocabulary of the properties. *)

Exams(asg) == {asg[i][1] : i \in DOMAIN asg}

\* Two exams share a department and have the same character at index 5.
SharesDeptYear(e1, e2) ==
    /\ Range(e1.departments) \cap Range(e2.departments) # {}
    /\ HasYearChar(e1) /\ HasYearChar(e2)
    /\ SubjectYear(e1) = SubjectYear(e2)

\* The exam record names a department twice.
RepeatsDept(e) ==
    \E i \in DOMAIN e.departments : \E j \in DOMAIN e.departments :
        i # j /\ e.departments[i] = e.departments[j]

\* Rules 1, 2 and 4 for item i; rule 3 and rule 5 for item i against the others.
Rule1(asg, i) == asg[i][1].n_applied <= SumCapacity(asg[i][2].halls)
Rule2(asg, i) == asg[i][2].start.time \in Range(VALID_START_TIMES)
Rule3(asg, i) ==
    \A j \in DOMAIN asg \ {i} :
        asg[j][2].start = asg[i][2].start => asg[j][2].halls \cap asg[i][2].halls = {}
Rule4(asg, i) ==
    asg[i][1].needs_computers => \A h \in asg[i][2].halls : h.has_computers
Rule5(asg, i) ==
    \A j \in DOMAIN asg \ {i} :
        asg[j][2].start.date = asg[i][2].start.date
            => ~SharesDeptYear(asg[i][1], asg[j][1])

FiveRules(asg) ==
    \A i \in DOMAIN asg :
        Rule1(asg, i) /\ Rule2(asg, i) /\ Rule3(asg, i) /\ Rule4(asg, i) /\ Rule5(asg, i)

\* The same dict iterated in every order.
Reordered(asg) ==
    {[i \in DOMAIN asg |-> asg[f[i]]] :
        f \in {g \in [DOMAIN asg -> DOMAIN asg] :
                 \A i \in DOMAIN asg : \A j \in DOMAIN asg : i # j => g[i] # g[j]}}

\* The dict with any subset of its bindings removed.
SubAssignments(asg) == {Pick(asg, ix) : ix \in SubLists(Len(asg), Len(asg))}

Returned == pc = "returned"

-----------------------------------------------------------------------------
(* Properties of satisfied, under SpecEval. *)

\* C1: for every assignment whose exams all have the year character, satisfied
\* returns True if and only if the five rules hold for every exam: capacity,
\* fixed start time, no hall shared with another exam of the same start,
\* computers in every hall when needed, and no other exam of the same day that
\* shares a department and the derived year.
C1_TrueIffFiveRules ==
    (Returned /\ \A e \in Exams(assignment) : HasYearChar(e))
        => ((result = "True") <=> FiveRules(assignment))

\* C2: satisfied never raises: whatever the subject identifiers and department
\* lists, the call ends by returning True or False.
C2_NeverRaises == Returned => result \in {"True", "False"}

\* C4: when satisfied returns True, no calendar day holds two distinct exams that
\* share a department and the derived year, whatever their start times and
\* halls; and a False always has a cause other than two such exams on different
\* days: a broken rule 1-4, a department repeated in one record, or two such
\* exams on the same day.
C4_DeptYearPerDay ==
    Returned =>
        /\ result = "True" =>
              \A i \in DOMAIN assignment : \A j \in DOMAIN assignment \ {i} :
                  assignment[i][2].start.date = assignment[j][2].start.date
                      => ~SharesDeptYear(assignment[i][1], assignment[j][1])
        /\ result = "False" =>
              \E i \in DOMAIN assignment :
                  \/ ~Rule1(assignment, i) \/ ~Rule2(assignment, i)
                  \/ ~Rule3(assignment, i) \/ ~Rule4(assignment, i)
                  \/ RepeatsDept(assignment[i][1])
                  \/ ~Rule5(assignment, i)

\* Accepted: two exams that share a department and the year, on different days;
\* and two exams of different years of one department on the same day.
C4_Witness ==
    /\ Returned /\ result = "True"
    /\ \E i \in DOMAIN assignment : \E j \in DOMAIN assignment :
          /\ SharesDeptYear(assignment[i][1], assignment[j][1])
          /\ assignment[i][2].start.date # assignment[j][2].start.date
    /\ \E i \in DOMAIN assignment : \E j \in DOMAIN assignment :
          /\ i # j
          /\ Range(assignment[i][1].departments) \cap Range(assignment[j][1].departments) # {}
          /\ assignment[i][2].start.date = assignment[j][2].start.date

\* C5: when satisfied returns True, any two distinct exams whose slots have equal
\* start have disjoint hall sets, for every pair of the assignment.
C5_NoDoubleBooking ==
    (Returned /\ result = "True") =>
        \A i \in DOMAIN assignment : \A j \in DOMAIN assignment \ {i} :
            assignment[i][2].start = assignment[j][2].start
                => assignment[i][2].halls \cap assignment[j][2].halls = {}

\* Accepted: three exams, the first and the last at the same start, the one
\* between them at another.
C5_Witness ==
    /\ Returned /\ result = "True"
    /\ Len(assignment) = 3
    /\ assignment[1][2].start = assignment[3][2].start
    /\ assignment[2][2].start # assignment[1][2].start

\* C6: the outcome of satisfied does not depend on the iteration order of the
\* assignment.
C6_OrderIndependent ==
    Returned => \A p \in Reordered(assignment) : Satisfied(p) = result

\* C7: if satisfied returns True for an assignment, it returns True for the
\* assignment with any subset of its bindings removed.
C7_MonotonicUnderRestriction ==
    (Returned /\ result = "True") =>
        \A sub \in SubAssignments(assignment) : Satisfied(sub) = "True"

\* Accepted: an assignment of three exams, two of them at the same start.
C7_Witness ==
    /\ Returned /\ result = "True"
    /\ Len(assignment) = 3
    /\ \E i \in DOMAIN assignment : \E j \in DOMAIN assignment :
          i # j /\ assignment[i][2].start = assignment[j][2].start

-----------------------------------------------------------------------------
(* Properties of the slot generation loop, under SpecGen. *)

\* The loop `for d in range(term.duration_days)` has ended.
SlotsGenerated == pc = "slots" /\ d >= term.duration_days

\* C8: the slot generation loop produces exactly
\* duration_days * 4 * (2^|halls| - 1) slots, one for each day of the term,
\* fixed start time and non-empty subset of the halls, so that every slot has
\* a non-empty hall set and a start time among the four fixed ones.
C8_SlotCount ==
    SlotsGenerated =>
        /\ Len(schedule_slots) = term.duration_days * 4 * (2^Len(data) - 1)
        /\ \A k \in 0..(term.duration_days - 1) :
           \A t \in DOMAIN VALID_START_TIMES :
           \A hs \in (SUBSET Range(data)) \ {{}} :
              Cardinality({i \in DOMAIN schedule_slots :
                            schedule_slots[i] =
                               ScheduleSlot(Combine(TERM_START_DATE + k,
                                                    VALID_START_TIMES[t]), hs)}) = 1
        /\ \A i \in DOMAIN schedule_slots :
              /\ schedule_slots[i].halls # {}
              /\ schedule_slots[i].start.time \in Range(VALID_START_TIMES)

\* The loop has ended for a term of two days and three halls; and for an
\* empty inventory.
C8_Witness ==
    /\ SlotsGenerated
    /\ term.duration_days = 2
    /\ Len(data) = 3
    /\ Len(schedule_slots) = 56

-----------------------------------------------------------------------------
(* Properties of the batch run, under SpecMain. *)

\* C3: the output file is written only after the search returned a solution:
\* when the search reports no solution the run does not crash and no output
\* file has been created.
C3_NoFileWithoutSolution ==
    solution = None => (out_file = NoFile /\ pc # "crashed")

\* A term of one day with two exams that share a department and the year.
OneDayTwoClashingExams ==
    /\ term.duration_days = 1
    /\ Len(term.exams) = 2
    /\ SharesDeptYear(term.exams[1], term.exams[2])

\* C9: for a term of one day and two exams that share a department and the
\* derived year, satisfied returns True for no assignment of both exams to
\* generated slots, whatever the halls; the search reports no solution.
C9_OneDayClash ==
    (OneDayTwoClashingExams /\ (pc # "slots" \/ SlotsGenerated)) =>
        /\ \A i \in DOMAIN schedule_slots : \A j \in DOMAIN schedule_slots :
              /\ Satisfied(<< <<term.exams[1], schedule_slots[i]>>,
                              <<term.exams[2], schedule_slots[j]>> >>) # "True"
              /\ Satisfied(<< <<term.exams[2], schedule_slots[j]>>,
                              <<term.exams[1], schedule_slots[i]>> >>) # "True"
        /\ pc \in {"export", "done", "crashed"} => solution = None

\* The search has reported no solution for such a term with two halls, which
\* have room for each of the two exams.
C9_Witness ==
    /\ OneDayTwoClashingExams
    /\ pc = "export"
    /\ solution = None
    /\ Len(data) = 2
    /\ \A i \in DOMAIN term.exams : term.exams[i].n_applied <= SumCapacity(Range(data))

\* The export of a solution has ended.
Exported == pc = "done" /\ solution # None

RowsPerDay == Len(VALID_START_TIMES) + 2

\* "HH:MM" of the four start times.
TimeLabels ==
    << <<"0", "8", ":", "0", "0">>, <<"1", "1", ":", "3", "0">>,
       <<"1", "5", ":", "0", "0">>, <<"1", "8", ":", "3", "0">> >>

\* The cell of day number k, start time t and hall column h.
GridCell(k, t, h) == out_file[RowsPerDay * k + 1 + t][1 + h]

\* The exams whose slot has the start (day k, time t) and contains the h-th
\* hall of the input.
Occupants(k, t, h) ==
    {solution[i][1] :
        i \in {j \in DOMAIN solution :
                 /\ solution[j][2].start =
                       Combine(TERM_START_DATE + k, VALID_START_TIMES[t])
                 /\ data[h] \in solution[j][2].halls}}

GridDays == 0..(term.duration_days - 1)

\* A header row with the day label and the hall names in input order, one row
\* per start time, a blank row, for every day of the term.
GridShape ==
    /\ Len(out_file) = RowsPerDay * term.duration_days
    /\ \A k \in GridDays :
          /\ out_file[RowsPerDay * k + 1] =
                << <<"D", "a", "n", Digit(k)>> >> \o [h \in DOMAIN data |-> data[h].hall]
          /\ \A t \in DOMAIN VALID_START_TIMES :
                /\ Len(out_file[RowsPerDay * k + 1 + t]) = 1 + Len(data)
                /\ out_file[RowsPerDay * k + 1 + t][1] = TimeLabels[t]
          /\ out_file[RowsPerDay * (k + 1)] = <<>>

\* Each cell holds the subject of the one exam that occupies the hall at that
\* start, or "X" when no exam does.
GridCells ==
    \A k \in GridDays : \A t \in DOMAIN VALID_START_TIMES : \A h \in DOMAIN data :
        IF Occupants(k, t, h) = {} THEN GridCell(k, t, h) = IdleCell
        ELSE \E e \in Occupants(k, t, h) :
                Occupants(k, t, h) = {e} /\ GridCell(k, t, h) = e.subject

\* Reading a cell back: "X" is an idle hall, any other text is the exam of the
\* term with that subject identifier.
ReadCell(cell) ==
    IF cell = IdleCell THEN {} ELSE {e \in Range(term.exams) : e.subject = cell}

GridReadsBack ==
    \A k \in GridDays : \A t \in DOMAIN VALID_START_TIMES : \A h \in DOMAIN data :
        ReadCell(GridCell(k, t, h)) = Occupants(k, t, h)

\* The subject identifiers of the term are pairwise different and none is "X".
SubjectsIdentify ==
    \A i \in DOMAIN term.exams :
        /\ term.exams[i].subject # IdleCell
        /\ \A j \in DOMAIN term.exams \ {i} : term.exams[i].subject # term.exams[j].subject

\* C10 as stated: the grid has the shape, every cell holds the subject of the
\* occupying exam or "X", and reading the grid back recovers which exam
\* occupies each hall at each start.
C10_GridRoundTrip == Exported => (GridShape /\ GridCells /\ GridReadsBack)

\* C10 amended: the grid has the shape and every cell holds the subject of the
\* occupying exam or "X"; reading the grid back recovers which exam occupies
\* each hall at each start when the subject identifiers of the term are
\* pairwise different and none of them is "X".
C10_GridRoundTripDistinctSubjects ==
    Exported => (GridShape /\ GridCells /\ (SubjectsIdentify => GridReadsBack))

\* Exported: two days, two halls, two exams with identifying subjects, one of
\* them in both halls, the other in one hall with the second hall idle.
C10_Witness ==
    /\ Exported
    /\ term.duration_days = 2 /\ Len(data) = 2 /\ Len(solution) = 2
    /\ SubjectsIdentify
    /\ Cardinality(solution[2][2].halls) = 2
    /\ Cardinality(solution[1][2].halls) = 1
    /\ solution[1][2].start # solution[2][2].start

====
